---- MODULE Spec2Model ----
(***************************************************************************)
(* Model of the analysis functions of streamlit_app.py (Glommadyppen      *)
(* water-temperature prediction): the propagation predictor               *)
(* (predict_fetsund_temperature, calculate_confidence), the southerly     *)
(* wind decomposition (calculate_southerly_wind) and the risk classifier  *)
(* (assess_risk_level) fed by fetch_weather_forecast; the drop detector   *)
(* (detect_temperature_drop), the two fetches with their error handling,  *)
(* the control flow of a dashboard run (main) with its daily wind         *)
(* summary, and calculate_event_date.                                     *)
(*                                                                         *)
(* Time is counted in whole hours.  Temperatures, wind speeds and         *)
(* confidences are exact rationals [n, d] kept in lowest terms, so the    *)
(* arithmetic of the code is modelled without floating-point rounding.    *)
(***************************************************************************)
EXTENDS Integers, Sequences, FiniteSets, TLC

VARIABLES
    vorma_temp_df,     \* the upstream series handed to the predictor: rows [time, value]
    event_datetime,    \* the target instant T of the prediction
    now,               \* the wall clock, pd.Timestamp.now(tz='UTC')
    prediction,        \* result of predict_fetsund_temperature, or NotCalled
    confidence,        \* result of a direct call of calculate_confidence, or NotCalled
    timeseries,        \* data['properties']['timeseries'] of the Met.no response
    weather_forecast,  \* the forecast data frame: [columns, rows]
    risk,              \* result of assess_risk_level: <<level, color>>, or NoRisk
    pcRisk,            \* position in the forecast / risk pipeline
    drop_event,        \* result of detect_temperature_drop, or NotCalled
    response,          \* what the HTTP request of a fetch comes back with
    nve_df,            \* result of fetch_nve_data, or NotCalled
    run,               \* one dashboard run of main: position, fetched series, output
    forecast_runs,     \* the forecast_days lists built by successive runs
    purity,            \* a call of an analysis function: the caller's frame before / after
    event_date         \* a call of calculate_event_date: [year, result]

predictVars == <<vorma_temp_df, event_datetime, now, confidence>>
riskVars    == <<timeseries, weather_forecast, risk, pcRisk>>
moreVars    == <<drop_event, response, nve_df, run, forecast_runs, purity, event_date>>
vars        == <<vorma_temp_df, event_datetime, now, prediction, confidence,
                 timeseries, weather_forecast, risk, pcRisk,
                 drop_event, response, nve_df, run, forecast_runs, purity, event_date>>

\* the Python None, and the value of a result variable before the call
None      == [kind |-> "None"]
NotCalled == [kind |-> "NotCalled"]
NoRisk    == <<>>

----------------------------------------------------------------------------
(* Exact rational arithmetic *)

Abs(x) == IF x < 0 THEN -x ELSE x

RECURSIVE GCD(_, _)
GCD(a, b) == IF b = 0 THEN a ELSE GCD(b, a % b)

\* n/d in lowest terms, d > 0
Rat(n, d) ==
    LET s == IF d < 0 THEN -1 ELSE 1
        g == GCD(Abs(n), Abs(d))
    IN  [n |-> (s * n) \div g, d |-> (s * d) \div g]

RatOf(i)     == [n |-> i, d |-> 1]
RatAdd(a, b) == Rat(a.n * b.d + b.n * a.d, a.d * b.d)
RatSub(a, b) == Rat(a.n * b.d - b.n * a.d, a.d * b.d)
RatMul(a, b) == Rat(a.n * b.n, a.d * b.d)
RatLT(a, b)  == a.n * b.d < b.n * a.d
RatLE(a, b)  == a.n * b.d <= b.n * a.d
RatMin(a, b) == IF RatLE(a, b) THEN a ELSE b

RECURSIVE SumSeq(_, _)
\* sum of f[1..k]
SumSeq(f, k) == IF k = 0 THEN 0 ELSE f[k] + SumSeq(f, k - 1)

\* Series.mean() of a sequence of integers (callers pass a non-empty one)
MeanOf(f) == Rat(SumSeq(f, Len(f)), Len(f))

----------------------------------------------------------------------------
(* Program constants *)

TRAVEL_TIME_HOURS    == 25
TEMPERATURE_SURVIVAL == Rat(14, 100)
baseline_hours       == 48
expected_points      == 72

----------------------------------------------------------------------------
(* Bounds and input sets of the predictor specification *)

MaxObs    == 3     \* longest freely chosen upstream series
MaxPoints == 73    \* longest hourly upstream series

ObsTimes    == {0, 20, 50, 70, 72}
ObsValues   == {14, 18, 20}
\* T - 25h before, inside and after the coverage, and at every confidence step
EventTimes  == {t + TRAVEL_TIME_HOURS : t \in {-10, 35, 60, 72, 73, 77, 78, 95, 96, 200}}
NowTimes    == {72, 100}

\* strictly ascending series over ObsTimes, as fetch_nve_data returns them
Ascending(s) ==
    \A i \in 1..(Len(s) - 1) : s[i].time < s[i + 1].time

ShortSeries ==
    UNION { { s \in [1..k -> [time : ObsTimes, value : ObsValues]] : Ascending(s) }
            : k \in 0..MaxObs }

\* an hourly series of k points ending at hour 72: flat at v, last point w
HourlySeries(k, v, w) ==
    [i \in 1..k |-> [time  |-> 72 - k + i,
                     value |-> IF i = k THEN w ELSE v]]

LongLens == {49, expected_points - 1, expected_points, MaxPoints}

LongSeries ==
    { HourlySeries(k, v, w) : k \in LongLens, v \in ObsValues, w \in ObsValues }

----------------------------------------------------------------------------
(* predict_fetsund_temperature and calculate_confidence *)

prediction_time(T) == T - TRAVEL_TIME_HOURS

\* time_diff = abs(time - prediction_time)
time_diff(df, pt) == [i \in 1..Len(df) |-> Abs(df[i].time - pt)]

\* faulty variant: the latest row (iloc[-1]) instead of the closest one
closest_latest(df, pt) == Len(df)

\* idxmin(): the first row of minimal time_diff
closest_idx(df, pt) ==
    LET td == time_diff(df, pt)
    IN  CHOOSE i \in 1..Len(df) :
            /\ \A j \in 1..Len(df) : td[i] <= td[j]
            /\ \A j \in 1..(i - 1) : td[j] > td[i]

\* df[df['time'] >= vorma_time - 48h]
recent_48h(df, vorma_time) ==
    SelectSeq(df, LAMBDA r : r.time >= vorma_time - baseline_hours)

baseline_of(df, vorma_time) ==
    LET recent == recent_48h(df, vorma_time)
    IN  MeanOf([i \in 1..Len(recent) |-> recent[i].value])

\* faulty variant: the diluted anomaly returned as the anomaly
anomaly_diluted(vorma_temp, baseline_temp) ==
    RatMul(RatSub(vorma_temp, baseline_temp), TEMPERATURE_SURVIVAL)

anomaly_of(vorma_temp, baseline_temp) == RatSub(vorma_temp, baseline_temp)

fetsund_temp_of(baseline_temp, anomaly) ==
    RatAdd(baseline_temp, RatMul(anomaly, TEMPERATURE_SURVIVAL))

\* df['time'].max()
latest_time(df) ==
    CHOOSE t \in {df[i].time : i \in 1..Len(df)} :
        \A i \in 1..Len(df) : df[i].time <= t

\* faulty variant: age of the first row (df['time'].min()) instead of the last
hours_old_first(df, target_time) == target_time - df[1].time

\* (target_time - latest_time).total_seconds() / 3600
hours_old(df, target_time) == target_time - latest_time(df)

\* the if / elif chain of lines 276-283
time_confidence(h) ==
    IF h < 1 THEN Rat(1, 1)
    ELSE IF h < 6 THEN Rat(9, 10)
    ELSE IF h < 24 THEN Rat(7, 10)
    ELSE Rat(5, 10)

\* faulty variant: the min(..., 1.0) clamp forgotten
completeness_unclamped(df) == Rat(Len(df), expected_points)

\* min(actual_points / expected_points, 1.0)
completeness(df) == RatMin(Rat(Len(df), expected_points), RatOf(1))

calculate_confidence(df, target_time) ==
    IF df = <<>> THEN RatOf(0)
    ELSE RatMul(time_confidence(hours_old(df, target_time)), completeness(df))

\* the dict built at lines 218-259 for a non-empty series
prediction_dict(df, T) ==
    LET pt   == prediction_time(T)
        idx  == closest_idx(df, pt)
        vt   == RatOf(df[idx].value)
        vtm  == df[idx].time
        base == baseline_of(df, vtm)
        anom == anomaly_of(vt, base)
    IN  [predicted_temp |-> fetsund_temp_of(base, anom),
         vorma_temp     |-> vt,
         baseline_temp  |-> base,
         anomaly        |-> anom,
         vorma_time     |-> vtm,
         confidence     |-> calculate_confidence(df, pt)]

\* faulty variant: a prediction withheld when its confidence is very low
predict_gated(df, T) ==
    IF df = <<>> THEN None
    ELSE IF RatLE(calculate_confidence(df, prediction_time(T)), Rat(1, 72)) THEN None
    ELSE prediction_dict(df, T)

\* The series comes from fetch_nve_data, whose time filter drops rows without a
\* timestamp, so idxmin() always finds a row and the second None return
\* (pd.isna(closest_idx), line 231) is not taken.
predict_fetsund_temperature(df, T) ==
    IF df = <<>> THEN None ELSE prediction_dict(df, T)

----------------------------------------------------------------------------
(* fetch_weather_forecast, calculate_southerly_wind, assess_risk_level *)

days_ahead      == 7
head_rows       == 48
band_low        == 135
band_high       == 225

EmptyFrame == [columns |-> {}, rows |-> <<>>]

ForecastColumns ==
    {"time", "air_temperature", "wind_speed", "wind_direction", "wind_gust"}

\* the rows appended before the loop breaks at the first time > max_time
RECURSIVE TakeUntil(_, _, _)
TakeUntil(ts, i, max_time) ==
    IF i > Len(ts) \/ ts[i].time > max_time THEN <<>>
    ELSE <<[time           |-> ts[i].time,
            wind_speed     |-> ts[i].wind_speed,
            wind_direction |-> ts[i].wind_from_direction]>>
         \o TakeUntil(ts, i + 1, max_time)

\* pd.DataFrame(forecast_list): no columns when the list is empty
fetch_weather_forecast(ts, clock) ==
    LET forecast_list == TakeUntil(ts, 1, clock + 24 * days_ahead)
    IN  IF forecast_list = <<>> THEN EmptyFrame
        ELSE [columns |-> ForecastColumns, rows |-> forecast_list]

\* faulty variant: the lower end of the band excluded
is_southerly_above(direction) == direction > band_low /\ direction <= band_high

\* (df['wind_direction'] >= 135) & (df['wind_direction'] <= 225)
is_southerly(direction) == direction >= band_low /\ direction <= band_high

\* np.where(is_southerly, df['wind_speed'], 0)
southerly_wind_of(r) == IF is_southerly(r.wind_direction) THEN r.wind_speed ELSE 0

calculate_southerly_wind(df) ==
    IF df.rows = <<>> \/ "wind_direction" \notin df.columns THEN df
    ELSE [columns |-> df.columns \cup {"southerly_wind"},
          rows    |-> [i \in 1..Len(df.rows) |->
                          [southerly_wind |-> southerly_wind_of(df.rows[i])] @@ df.rows[i]]]

\* DataFrame.head(n): the first n rows
head(rows, n) == SubSeq(rows, 1, IF Len(rows) < n THEN Len(rows) ELSE n)

southerly_risk(wf) ==
    IF wf.rows = <<>> THEN FALSE
    ELSE IF "southerly_wind" \notin wf.columns THEN FALSE
    ELSE LET next_48h == head(wf.rows, head_rows)
             avg_southerly == MeanOf([i \in 1..Len(next_48h) |-> next_48h[i].southerly_wind])
         IN  RatLE(Rat(3, 2), avg_southerly)

\* the (level, color) pairs returned; the level text is written in ASCII
\* (the source has "HØYRISIKOGRUPPE")
HIGH     == <<"HOYRISIKOGRUPPE", "#dc3545">>
MODERATE == <<"MODERAT RISIKO", "#ffc107">>
LOW      == <<"LAV RISIKO", "#17a2b8">>
GOOD     == <<"GODE FORHOLD", "#28a745">>
UNKNOWN  == <<"UNKNOWN", "gray">>

\* faulty variant: the MODERATE test placed before the HIGH test
risk_rules_moderate_first(predicted_temp, anomaly, sr) ==
    IF RatLT(predicted_temp, RatOf(16)) \/ RatLT(anomaly, RatOf(-2)) \/ sr THEN MODERATE
    ELSE IF RatLT(predicted_temp, RatOf(14)) \/ RatLT(anomaly, RatOf(-3)) THEN HIGH
    ELSE IF RatLT(predicted_temp, RatOf(18)) THEN LOW
    ELSE GOOD

\* the if / elif chain of lines 309-316
risk_rules(predicted_temp, anomaly, sr) ==
    IF RatLT(predicted_temp, RatOf(14)) \/ RatLT(anomaly, RatOf(-3)) THEN HIGH
    ELSE IF RatLT(predicted_temp, RatOf(16)) \/ RatLT(anomaly, RatOf(-2)) \/ sr THEN MODERATE
    ELSE IF RatLT(predicted_temp, RatOf(18)) THEN LOW
    ELSE GOOD

\* faulty variant: UNKNOWN also when the forecast has no southerly_wind column
assess_unknown_without_wind(p, wf) ==
    IF p = None \/ "southerly_wind" \notin wf.columns THEN UNKNOWN
    ELSE risk_rules(p.predicted_temp, p.anomaly, southerly_risk(wf))

assess_risk_level(p, wf) ==
    IF p = None THEN UNKNOWN
    ELSE risk_rules(p.predicted_temp, p.anomaly, southerly_risk(wf))

----------------------------------------------------------------------------
(* The variables of the other specifications, at rest *)

MoreIdle ==
    /\ drop_event = NotCalled
    /\ response = NotCalled
    /\ nve_df = NotCalled
    /\ run = NotCalled
    /\ forecast_runs = <<>>
    /\ purity = NotCalled
    /\ event_date = NotCalled

----------------------------------------------------------------------------
(* Predictor specification *)

RiskIdle ==
    /\ timeseries = <<>>
    /\ weather_forecast = EmptyFrame
    /\ risk = NoRisk
    /\ pcRisk = "idle"

Init ==
    /\ \/ vorma_temp_df \in ShortSeries
       \/ vorma_temp_df \in LongSeries
    /\ event_datetime \in EventTimes
    /\ now \in NowTimes
    /\ prediction = NotCalled
    /\ confidence = NotCalled
    /\ RiskIdle
    /\ MoreIdle

Predict ==
    /\ prediction = NotCalled
    /\ prediction' = predict_fetsund_temperature(vorma_temp_df, event_datetime)
    /\ UNCHANGED <<moreVars, predictVars, riskVars>>

Confidence ==
    /\ confidence = NotCalled
    /\ confidence' = calculate_confidence(vorma_temp_df, prediction_time(event_datetime))
    /\ UNCHANGED <<moreVars, vorma_temp_df, event_datetime, now, prediction, riskVars>>

Next == Predict \/ Confidence

Spec == Init /\ [][Next]_vars

----------------------------------------------------------------------------
(* Risk specification: forecast fetch, southerly decomposition, classifier *)

MaxRows == 49    \* longest provider forecast

\* the prediction the predictor builds from a selected value v and a baseline b
PredictionFrom(v, b) ==
    LET anom == anomaly_of(RatOf(v), RatOf(b))
    IN  [predicted_temp |-> fetsund_temp_of(RatOf(b), anom),
         vorma_temp     |-> RatOf(v),
         baseline_temp  |-> RatOf(b),
         anomaly        |-> anom,
         vorma_time     |-> 0,
         confidence     |-> Rat(1, 2)]

RiskPredictions ==
    {None} \cup { PredictionFrom(b + a, b) : b \in 13..19, a \in -4..0 }

WindSpeeds     == {0, 1, 3}
WindDirections == {134, 135, 180, 225, 226}
Winds          == [speed : WindSpeeds, dir : WindDirections]

\* a provider forecast of n samples every c hours from the wall clock on:
\* wind w1 for the first k samples, wind w2 afterwards
WindSeries(c, n, k, w1, w2, clock) ==
    [i \in 1..n |->
        [time                |-> clock + (i - 1) * c,
         wind_speed          |-> IF i <= k THEN w1.speed ELSE w2.speed,
         wind_from_direction |-> IF i <= k THEN w1.dir ELSE w2.dir]]

Calm     == [speed |-> 0, dir |-> 180]
Southerly == [speed |-> 3, dir |-> 180]

FewWind ==
    { WindSeries(1, n, 0, Calm, w, 0) : n \in {0, 2}, w \in {Calm, Southerly} }

ShortRowCounts == {1, 2, 9, 16}
LongRowCounts  == {MaxRows - 1, MaxRows}

\* hourly, 3-hourly and 6-hourly forecasts of the given lengths
ManyWind(counts) ==
    { WindSeries(c, n, k, w1, w2, 0) :
        c \in {1, 3, 6}, n \in counts, k \in {0, 1, 8}, w1 \in Winds, w2 \in Winds }

PredictIdle ==
    /\ vorma_temp_df = <<>>
    /\ event_datetime = 0
    /\ now = 0
    /\ confidence = NotCalled

InitRisk ==
    /\ PredictIdle
    /\ MoreIdle
    /\ \/ prediction \in RiskPredictions /\ timeseries \in FewWind
       \/ prediction = PredictionFrom(17, 17) /\ timeseries \in ManyWind(ShortRowCounts)
       \/ prediction = PredictionFrom(17, 17) /\ timeseries \in ManyWind(LongRowCounts)
    /\ weather_forecast = EmptyFrame
    /\ risk = NoRisk
    /\ pcRisk = "start"

\* the request fails (the except branch returns pd.DataFrame()) or is parsed
FetchWeatherForecast ==
    /\ pcRisk = "start"
    /\ \E ok \in BOOLEAN :
          weather_forecast' = IF ok THEN fetch_weather_forecast(timeseries, now)
                              ELSE EmptyFrame
    /\ pcRisk' = "fetched"
    /\ UNCHANGED <<moreVars, predictVars, prediction, timeseries, risk>>

CalculateSoutherlyWind ==
    /\ pcRisk = "fetched"
    /\ weather_forecast' = calculate_southerly_wind(weather_forecast)
    /\ pcRisk' = "derived"
    /\ UNCHANGED <<moreVars, predictVars, prediction, timeseries, risk>>

AssessRiskLevel ==
    /\ pcRisk \in {"fetched", "derived"}
    /\ risk' = assess_risk_level(prediction, weather_forecast)
    /\ pcRisk' = "assessed"
    /\ UNCHANGED <<moreVars, predictVars, prediction, timeseries, weather_forecast>>

NextRisk == FetchWeatherForecast \/ CalculateSoutherlyWind \/ AssessRiskLevel

SpecRisk == InitRisk /\ [][NextRisk]_vars

----------------------------------------------------------------------------
(* Claims about the predictor *)

IsDict(p) == p # NotCalled /\ p # None

\* C1: predict_fetsund_temperature returns None if and only if the upstream
\* series is empty; for a non-empty series a prediction is returned whatever
\* the target instant and whatever the computed confidence.
C1_NoneIffEmpty ==
    prediction # NotCalled => ((prediction = None) <=> (vorma_temp_df = <<>>))

\* a single observation, a target 200 h past it: the lowest confidence there is
C1_Witness ==
    /\ IsDict(prediction)
    /\ Len(vorma_temp_df) = 1
    /\ prediction_time(event_datetime) = 200
    /\ prediction.confidence = Rat(1, 144)

\* the observations of df with lo <= time <= hi
Between(df, lo, hi) == SelectSeq(df, LAMBDA r : lo <= r.time /\ r.time <= hi)

\* C2: the returned baseline is the mean of exactly the observations in the
\* 48 hours preceding (and up to) the selected observation; later observations
\* do not contribute.
C2_BaselineOverPreceding48h ==
    IsDict(prediction) =>
        LET w == Between(vorma_temp_df, prediction.vorma_time - 48, prediction.vorma_time)
        IN  prediction.baseline_temp = MeanOf([i \in 1..Len(w) |-> w[i].value])

\* C3: anomaly = selected_value - baseline and
\* predicted_temp = baseline + anomaly * 0.14, exactly.
C3_AnomalyAndDilution ==
    IsDict(prediction) =>
        /\ \E i \in 1..Len(vorma_temp_df) :
              /\ vorma_temp_df[i].time = prediction.vorma_time
              /\ RatOf(vorma_temp_df[i].value) = prediction.vorma_temp
        /\ prediction.anomaly = RatSub(prediction.vorma_temp, prediction.baseline_temp)
        /\ RatMul(prediction.predicted_temp, RatOf(100)) =
               RatAdd(RatMul(prediction.baseline_temp, RatOf(100)),
                      RatMul(prediction.anomaly, RatOf(14)))

\* 48 hourly points at 18 then one at 14, target 25 h after the last point:
\* baseline 878/49 = 17.92, anomaly -192/49 = -3.92, predicted 21278/1225 = 17.37
C3_Witness ==
    /\ IsDict(prediction)
    /\ vorma_temp_df = HourlySeries(49, 18, 14)
    /\ prediction_time(event_datetime) = 72
    /\ prediction.baseline_temp = Rat(878, 49)
    /\ prediction.anomaly = Rat(-192, 49)
    /\ prediction.predicted_temp = Rat(21278, 1225)

\* C4: the selected observation is at minimal absolute time distance from
\* T - 25h over the whole series.
C4_SelectedIsClosest ==
    IsDict(prediction) =>
        \E i \in 1..Len(vorma_temp_df) :
            /\ vorma_temp_df[i].time = prediction.vorma_time
            /\ RatOf(vorma_temp_df[i].value) = prediction.vorma_temp
            /\ \A j \in 1..Len(vorma_temp_df) :
                  Abs(vorma_temp_df[j].time - (event_datetime - 25))
                      >= Abs(vorma_temp_df[i].time - (event_datetime - 25))

\* T - 25h = 60 inside the coverage, the middle observation (at 50) selected
C4_Witness ==
    /\ IsDict(prediction)
    /\ Len(vorma_temp_df) = 3
    /\ event_datetime - 25 = 60
    /\ vorma_temp_df[1].time = 0
    /\ vorma_temp_df[2].time = 50
    /\ vorma_temp_df[3].time = 72
    /\ prediction.vorma_time = 50

\* the step function of the claim, on an age in hours
StepOfAge(h) ==
    IF h < 1 THEN Rat(1, 1)
    ELSE IF h < 6 THEN Rat(9, 10)
    ELSE IF h < 24 THEN Rat(7, 10)
    ELSE Rat(1, 2)

\* min(len/72, 1.0)
ShareOf72(df) == IF Len(df) >= 72 THEN RatOf(1) ELSE Rat(Len(df), 72)

LastTime(df) == df[Len(df)].time

\* C5 (as claimed): time_confidence is the step function of the age of the
\* selected observation measured against the current wall-clock time.
C5_AgeAgainstWallClock ==
    IsDict(prediction) =>
        prediction.confidence =
            RatMul(StepOfAge(now - prediction.vorma_time), ShareOf72(vorma_temp_df))

\* C5 (amended): time_confidence is the step function of the hours from the
\* latest observation of the series to the prediction time T - 25h.
C5_AgeAgainstPredictionTime ==
    IsDict(prediction) =>
        prediction.confidence =
            RatMul(StepOfAge((event_datetime - 25) - LastTime(vorma_temp_df)),
                   ShareOf72(vorma_temp_df))

\* a full series whose last point is 28 h old at the wall clock, and 0 h before
\* T - 25h: confidence 1.0
C5_Witness ==
    /\ IsDict(prediction)
    /\ Len(vorma_temp_df) = 72
    /\ now - prediction.vorma_time = 28
    /\ event_datetime - 25 = prediction.vorma_time
    /\ prediction.confidence = RatOf(1)

\* C6: the confidence lies in [0,1] and is time_confidence * min(len/72, 1.0):
\* never above time_confidence, and exactly time_confidence from 72 points on.
C6_ConfidenceRange ==
    confidence # NotCalled =>
        /\ RatLE(RatOf(0), confidence)
        /\ RatLE(confidence, RatOf(1))
        /\ \E tc \in {Rat(1, 1), Rat(9, 10), Rat(7, 10), Rat(1, 2)} :
              /\ confidence = RatMul(tc, ShareOf72(vorma_temp_df))
              /\ RatLE(confidence, tc)
              /\ Len(vorma_temp_df) >= 72 => confidence = tc

\* more than 72 points, the last one 5 h before the target: confidence 0.9
C6_Witness ==
    /\ confidence = Rat(9, 10)
    /\ Len(vorma_temp_df) > 72
    /\ prediction_time(event_datetime) - LastTime(vorma_temp_df) = 5


----------------------------------------------------------------------------
(* Claims about the risk classifier and the southerly decomposition *)

\* C7: with a prediction, the ordered rules apply, first match winning: HIGH if
\* predicted_temp < 14 or anomaly < -3; else MODERATE if predicted_temp < 16 or
\* anomaly < -2 or southerly_risk; else LOW if predicted_temp < 18; else GOOD.
\* A HIGH condition gives HIGH whatever the wind, and one level is returned.
C7_OrderedRules ==
    (pcRisk = "assessed" /\ IsDict(prediction)) =>
        LET pt   == prediction.predicted_temp
            an   == prediction.anomaly
            sr   == southerly_risk(weather_forecast)
            high == pt.n < 14 * pt.d \/ an.n < -3 * an.d
            mod  == pt.n < 16 * pt.d \/ an.n < -2 * an.d \/ sr
            low  == pt.n < 18 * pt.d
        IN  /\ high => risk[1] = "HOYRISIKOGRUPPE"
            /\ (~high /\ mod) => risk[1] = "MODERAT RISIKO"
            /\ (~high /\ ~mod /\ low) => risk[1] = "LAV RISIKO"
            /\ (~high /\ ~mod /\ ~low) => risk[1] = "GODE FORHOLD"
            /\ risk[1] \in {"HOYRISIKOGRUPPE", "MODERAT RISIKO", "LAV RISIKO", "GODE FORHOLD"}

\* predicted 18.44 (not below 16), anomaly -4, a southerly forecast: HIGH wins
C7_Witness ==
    /\ pcRisk = "assessed"
    /\ prediction = PredictionFrom(15, 19)
    /\ southerly_risk(weather_forecast)
    /\ risk = HIGH

\* C8: UNKNOWN, with a color no other level has, is returned if and only if no
\* prediction is given; with a prediction it is never returned, also when the
\* forecast is empty or has no southerly-wind column.
C8_UnknownIffNoPrediction ==
    pcRisk = "assessed" =>
        /\ (risk[1] = "UNKNOWN") <=> (prediction = None)
        /\ (risk[1] = "UNKNOWN") <=> (risk[2] = "gray")

\* a prediction classified on a non-empty forecast without the southerly column
C8_Witness ==
    /\ pcRisk = "assessed"
    /\ IsDict(prediction)
    /\ weather_forecast.rows # <<>>
    /\ "southerly_wind" \notin weather_forecast.columns
    /\ risk = LOW

\* the samples of the first 48 forecast hours, counted from the first sample
Next48Hours(rows) == SelectSeq(rows, LAMBDA r : r.time < rows[1].time + 48)

\* C9: southerly_risk is true exactly when the mean southerly wind speed over
\* the samples of the next 48 forecast hours is >= 1.5 m/s, at every sampling
\* cadence; later samples do not enter the mean.  Read off the classification
\* of a prediction that only southerly_risk can make MODERATE.
C9_MeanOverNext48Hours ==
    (/\ pcRisk = "assessed"
     /\ prediction = PredictionFrom(17, 17)
     /\ "southerly_wind" \in weather_forecast.columns) =>
        LET w == Next48Hours(weather_forecast.rows)
        IN  (risk = MODERATE) <=>
                (2 * SumSeq([i \in 1..Len(w) |-> w[i].southerly_wind], Len(w)) >= 3 * Len(w))

\* C10 (as claimed): the southerly component is the wind speed for a direction
\* in [135, 225) and 0 otherwise; 225 exactly is not southerly.
C10_ClosedOpenBand ==
    "southerly_wind" \in weather_forecast.columns =>
        \A i \in 1..Len(weather_forecast.rows) :
            LET r == weather_forecast.rows[i]
            IN  r.southerly_wind =
                    IF 135 <= r.wind_direction /\ r.wind_direction < 225
                    THEN r.wind_speed ELSE 0

\* C10 (amended): the southerly component is the wind speed for a direction in
\* the closed band [135, 225] and 0 otherwise; 135 and 225 both count.
C10_ClosedBand ==
    "southerly_wind" \in weather_forecast.columns =>
        \A i \in 1..Len(weather_forecast.rows) :
            LET r == weather_forecast.rows[i]
            IN  r.southerly_wind =
                    IF 135 <= r.wind_direction /\ r.wind_direction <= 225
                    THEN r.wind_speed ELSE 0

\* samples at 135 and at 225 degrees, 3 m/s each: both southerly
C10_Witness ==
    /\ pcRisk = "derived"
    /\ Len(weather_forecast.rows) = 2
    /\ weather_forecast.rows[1].wind_direction = 135
    /\ weather_forecast.rows[1].southerly_wind = 3
    /\ weather_forecast.rows[2].wind_direction = 225
    /\ weather_forecast.rows[2].wind_speed = 3
    /\ weather_forecast.rows[2].southerly_wind = 3

----------------------------------------------------------------------------
(* detect_temperature_drop *)

\* defaults of detect_temperature_drop(df, threshold_C=2.0, window_hours=6)
threshold_C  == 2
window_hours == 6

MaxDrop    == 5
DropTimes  == {0, 1, 2, 3, 4, 12}
DropValues == {15, 17, 18, 20}

RECURSIVE SeqOfTimes(_)
\* the instants of S in ascending order
SeqOfTimes(S) ==
    IF S = {} THEN <<>>
    ELSE LET m == CHOOSE x \in S : \A y \in S : x <= y
         IN  <<m>> \o SeqOfTimes(S \ {m})

\* series of at most n observations with distinct ascending instants, as
\* fetch_nve_data returns them
DropSeries(n) ==
    UNION { LET t == SeqOfTimes(S)
            IN  { [i \in 1..Len(t) |-> [time |-> t[i], value |-> v[t[i]]]]
                  : v \in [S -> DropValues] }
            : S \in { T \in SUBSET DropTimes : Cardinality(T) <= n } }

RECURSIVE sort_values(_)
\* df.sort_values('time'): the row of least time first, ties in input order
sort_values(rows) ==
    IF rows = <<>> THEN <<>>
    ELSE LET i == CHOOSE k \in 1..Len(rows) :
                      /\ \A j \in 1..Len(rows) : rows[k].time <= rows[j].time
                      /\ \A j \in 1..(k - 1) : rows[j].time # rows[k].time
             rest == [j \in 1..(Len(rows) - 1) |->
                          IF j < i THEN rows[j] ELSE rows[j + 1]]
         IN  <<rows[i]>> \o sort_values(rest)

\* recent['value'].max() and recent['value'].min()
max_value(rows) ==
    CHOOSE v \in {rows[i].value : i \in 1..Len(rows)} :
        \A i \in 1..Len(rows) : rows[i].value <= v

min_value(rows) ==
    CHOOSE v \in {rows[i].value : i \in 1..Len(rows)} :
        \A i \in 1..Len(rows) : v <= rows[i].value

\* recent[recent['value'] == v]['time'].iloc[0]
first_time_of(rows, v) ==
    SelectSeq(rows, LAMBDA r : r.value = v)[1].time

\* faulty variant: a drop equal to the threshold is not reported
reports_drop_above(drop, threshold) == drop > threshold

\* if drop >= threshold_C
reports_drop(drop, threshold) == drop >= threshold

detect_temperature_drop(df, threshold, window) ==
    IF Len(df) < 2 THEN None
    ELSE
      LET sorted        == sort_values(df)
          recent_cutoff == latest_time(sorted) - window
          recent        == SelectSeq(sorted, LAMBDA r : r.time >= recent_cutoff)
      IN  IF Len(recent) < 2 THEN None
          ELSE
            LET max_temp == max_value(recent)
                min_temp == min_value(recent)
                drop     == max_temp - min_temp
                max_time == first_time_of(recent, max_temp)
                min_time == first_time_of(recent, min_temp)
            IN  IF reports_drop(drop, threshold)
                THEN [magnitude      |-> drop,
                      max_temp       |-> max_temp,
                      min_temp       |-> min_temp,
                      max_time       |-> max_time,
                      min_time       |-> min_time,
                      duration_hours |-> min_time - max_time]
                ELSE None

----------------------------------------------------------------------------
(* Drop-detector specification *)

InitDrop ==
    /\ vorma_temp_df \in DropSeries(MaxDrop)
    /\ event_datetime = 0
    /\ now = 0
    /\ prediction = NotCalled
    /\ confidence = NotCalled
    /\ RiskIdle
    /\ MoreIdle

\* drop_event = detect_temperature_drop(vorma_temp)
DetectTemperatureDrop ==
    /\ drop_event = NotCalled
    /\ drop_event' = detect_temperature_drop(vorma_temp_df, threshold_C, window_hours)
    /\ UNCHANGED <<predictVars, prediction, riskVars,
                   response, nve_df, run, forecast_runs, purity, event_date>>

NextDrop == DetectTemperatureDrop

SpecDrop == InitDrop /\ [][NextDrop]_vars

----------------------------------------------------------------------------
(* Claims about the drop detector *)

\* C11: every reported event runs from a maximum to a minimum that does not
\* precede it: max_time <= min_time and duration_hours >= 0, so a series
\* that only rises inside the window yields no event.
C11_MaxNotAfterMin ==
    IsDict(drop_event) =>
        /\ drop_event.max_time <= drop_event.min_time
        /\ drop_event.duration_hours >= 0

\* indices of the observations in the trailing window ending at the latest one
TrailingWindow(df) ==
    {i \in 1..Len(df) : df[i].time >= df[Len(df)].time - window_hours}

WindowValues(df) == {df[i].value : i \in TrailingWindow(df)}

Spread(V) == CHOOSE d \in 0..100 : \E hi \in V, lo \in V :
                 /\ d = hi - lo
                 /\ \A x \in V : lo <= x /\ x <= hi

\* C12: an event is returned exactly when the trailing window of
\* window_hours holds at least 2 observations and max - min over it reaches
\* threshold_C (equality included); its magnitude is that max - min and its
\* two timestamps are those of an observation at the maximum and one at the
\* minimum of the window.
C12_EventIffSpreadInWindow ==
    drop_event # NotCalled =>
        LET df == vorma_temp_df
            W  == TrailingWindow(df)
        IN  /\ IsDict(drop_event) <=>
                   /\ Len(df) >= 1
                   /\ Cardinality(W) >= 2
                   /\ Spread(WindowValues(df)) >= threshold_C
            /\ IsDict(drop_event) =>
                   /\ drop_event.magnitude = Spread(WindowValues(df))
                   /\ \E i \in W : /\ df[i].time = drop_event.max_time
                                   /\ \A j \in W : df[j].value <= df[i].value
                   /\ \E i \in W : /\ df[i].time = drop_event.min_time
                                   /\ \A j \in W : df[i].value <= df[j].value

\* [20,20,18,17,15] at hourly steps: magnitude 5 from t=0 to t=4
C12_Witness ==
    /\ Len(vorma_temp_df) = 5
    /\ \A i \in 1..5 : vorma_temp_df[i].time = i - 1
    /\ [i \in 1..5 |-> vorma_temp_df[i].value] = <<20, 20, 18, 17, 15>>
    /\ IsDict(drop_event)
    /\ drop_event.magnitude = 5
    /\ drop_event.max_time = 0
    /\ drop_event.min_time = 4

----------------------------------------------------------------------------
(* fetch_nve_data and the try / except of fetch_weather_forecast *)

\* default of fetch_nve_data(station_id, parameter, hours_back=72)
hours_back == 72

NveColumns == {"time", "value", "quality"}

\* pd.DataFrame(columns=['time', 'value', 'quality'])
NveEmpty == [columns |-> NveColumns, rows |-> <<>>]

\* how a block of code ends: with a return value or with an exception
Return(v)   == [kind |-> "return", value |-> v]
Raise(e, c) == [kind |-> "raise", exception |-> e, status_code |-> c]

\* faulty variant: the record stamped exactly at the cutoff is dropped
in_window_after(t, cutoff_time) == t > cutoff_time

\* df['time'] >= cutoff_time
in_window(t, cutoff_time) == t >= cutoff_time

\* faulty variant: a record without a quality code is kept
quality_or_missing(r) == "quality" \notin DOMAIN r \/ r.quality \in {1, 2}

\* df['quality'].isin([1, 2]); a record without the key holds NaN there
quality_controlled(r) == "quality" \in DOMAIN r /\ r.quality \in {1, 2}

\* the columns of pd.DataFrame(observations): the union of the records' keys
columns_of(observations) ==
    UNION {DOMAIN observations[i] : i \in 1..Len(observations)}

\* the body of the try block of fetch_nve_data
fetch_nve_data_try(resp, clock, hours) ==
    IF resp.kind = "ConnectionError" THEN Raise("ConnectionError", 0)
    ELSE IF resp.kind = "HTTPError" THEN Raise("HTTPError", resp.status_code)
    ELSE IF resp.kind = "JSONDecodeError" THEN Raise("JSONDecodeError", 0)
    ELSE
      LET data == resp.body
      IN  IF "data" \in DOMAIN data /\ Len(data.data) > 0
          THEN
            LET observations == data.data[1].observations
                cutoff_time  == clock - hours
                in_time      == SelectSeq(observations,
                                     LAMBDA r : in_window(r.time, cutoff_time))
                accepted     == SelectSeq(in_time, quality_controlled)
            IN  IF "time" \notin columns_of(observations)
                    THEN Raise("KeyError", 0)
                ELSE IF "quality" \notin columns_of(observations)
                    THEN Raise("KeyError", 0)
                ELSE Return([columns |-> NveColumns, rows |-> sort_values(accepted)])
          ELSE Return(NveEmpty)

\* faulty variant: only the HTTPError handler, other exceptions propagate
fetch_nve_data_http_only(resp, clock, hours) ==
    LET out == fetch_nve_data_try(resp, clock, hours)
    IN  IF out.kind = "return" THEN out.value
        ELSE IF out.exception = "HTTPError" THEN NveEmpty
        ELSE out

\* try: ... except HTTPError: ... except Exception: ...
fetch_nve_data(resp, clock, hours) ==
    LET out == fetch_nve_data_try(resp, clock, hours)
    IN  IF out.kind = "return" THEN out.value
        ELSE IF out.exception = "HTTPError"
            \* status 400 silently, any other status after st.warning
            THEN (IF out.status_code = 400 THEN NveEmpty ELSE NveEmpty)
        ELSE NveEmpty

\* the body of the try block of fetch_weather_forecast
fetch_weather_forecast_try(resp, clock) ==
    IF resp.kind = "ConnectionError" THEN Raise("ConnectionError", 0)
    ELSE IF resp.kind = "HTTPError" THEN Raise("HTTPError", resp.status_code)
    ELSE IF resp.kind = "JSONDecodeError" THEN Raise("JSONDecodeError", 0)
    ELSE IF "properties" \notin DOMAIN resp.body THEN Raise("KeyError", 0)
    ELSE Return(fetch_weather_forecast(resp.body.properties.timeseries, clock))

\* try: ... except Exception: return pd.DataFrame()
fetch_weather_forecast_or_empty(resp, clock) ==
    LET out == fetch_weather_forecast_try(resp, clock)
    IN  IF out.kind = "return" THEN out.value ELSE EmptyFrame

----------------------------------------------------------------------------
(* Fetch specification: one request, answered in any way, and the two fetches *)

MaxRecords == 3
NveNow     == 100
NveTimes   == {NveNow - hours_back - 8, NveNow - hours_back, 60, NveNow + 10}

\* a provider record: its quality code may be missing
ProviderRecords == [time : NveTimes] \cup [time : NveTimes, quality : {1, 2, 3}]

\* observation lists of at most n records in any order, one record per
\* instant, value 10 + position
Observations(n) ==
    UNION { { [i \in 1..k |-> [value |-> 10 + i] @@ s[i]]
              : s \in { q \in [1..k -> ProviderRecords] :
                          \A i \in 1..k : \A j \in 1..(i - 1) :
                              q[i].time # q[j].time } }
            : k \in 0..n }

\* the request times out, is refused, or is answered with a body that is not JSON
FailedResponses ==
    {[kind |-> "ConnectionError"], [kind |-> "JSONDecodeError"]}
    \cup {[kind |-> "HTTPError", status_code |-> c] : c \in {400, 500}}

NveBodies(n) ==
    {[message |-> "no data"], [data |-> <<>>]}
    \cup {[data |-> <<[observations |-> o]>>] : o \in Observations(n)}

WeatherBodies ==
    {[properties |-> [timeseries |-> ts]] : ts \in FewWind \cup ManyWind({1, 2})}

Responses(n) ==
    FailedResponses
    \cup {[kind |-> "json", body |-> b] : b \in NveBodies(n) \cup WeatherBodies}

InitFetch ==
    /\ vorma_temp_df = <<>>
    /\ event_datetime = 0
    /\ now = NveNow
    /\ prediction = NotCalled
    /\ confidence = NotCalled
    /\ RiskIdle
    /\ drop_event = NotCalled
    /\ response \in Responses(MaxRecords)
    /\ nve_df = NotCalled
    /\ run = NotCalled
    /\ forecast_runs = <<>>
    /\ purity = NotCalled
    /\ event_date = NotCalled

FetchNveData ==
    /\ nve_df = NotCalled
    /\ nve_df' = fetch_nve_data(response, now, hours_back)
    /\ UNCHANGED <<predictVars, prediction, riskVars,
                   drop_event, response, run, forecast_runs, purity, event_date>>

FetchForecastOrEmpty ==
    /\ pcRisk = "idle"
    /\ weather_forecast' = fetch_weather_forecast_or_empty(response, now)
    /\ pcRisk' = "fetched"
    /\ UNCHANGED <<predictVars, prediction, timeseries, risk, moreVars>>

NextFetch == FetchNveData \/ FetchForecastOrEmpty

SpecFetch == InitFetch /\ [][NextFetch]_vars

----------------------------------------------------------------------------
(* Claims about the fetches *)

\* the observation list of the response, <<>> when it carries none
ObservationsOf(resp) ==
    IF resp.kind = "json" /\ "data" \in DOMAIN resp.body /\ Len(resp.body.data) > 0
    THEN resp.body.data[1].observations
    ELSE <<>>

TimesOf(rows) == {rows[i].time : i \in 1..Len(rows)}

IsFrame(x) == DOMAIN x = {"columns", "rows"}

\* C13 (as claimed): the returned series is ascending in time and every
\* timestamp lies within [now - hours_back, now]: older records and records
\* stamped after now are both dropped.
C13_WithinClosedWindow ==
    nve_df # NotCalled =>
        /\ \A i \in 1..(Len(nve_df.rows) - 1) :
               nve_df.rows[i].time < nve_df.rows[i + 1].time
        /\ \A t \in TimesOf(nve_df.rows) : now - hours_back <= t /\ t <= now

\* C13 (amended): the returned series is ascending in time and every
\* timestamp is at or after now - hours_back; there is no upper end: when
\* some record carries a quality code, every record of accepted quality at
\* or after the cutoff is returned, those stamped after now included.
C13_AtOrAfterCutoff ==
    nve_df # NotCalled =>
        LET obs == ObservationsOf(response)
        IN  /\ \A i \in 1..(Len(nve_df.rows) - 1) :
                   nve_df.rows[i].time < nve_df.rows[i + 1].time
            /\ \A t \in TimesOf(nve_df.rows) : t >= now - hours_back
            /\ (\E i \in 1..Len(obs) : "quality" \in DOMAIN obs[i]) =>
                   \A i \in 1..Len(obs) :
                       ( /\ "quality" \in DOMAIN obs[i]
                         /\ obs[i].quality \in {1, 2}
                         /\ obs[i].time >= now - hours_back )
                       => \E j \in 1..Len(nve_df.rows) :
                              /\ nve_df.rows[j].time = obs[i].time
                              /\ nve_df.rows[j].value = obs[i].value

\* a record after now and a record at the cutoff, given in descending order
\* next to one that is too old: the two are returned in ascending order
C13_Witness ==
    /\ nve_df # NotCalled
    /\ Len(ObservationsOf(response)) = 3
    /\ ObservationsOf(response)[1].time = now + 10
    /\ ObservationsOf(response)[2].time = now - hours_back - 8
    /\ ObservationsOf(response)[3].time = now - hours_back
    /\ Len(nve_df.rows) = 2
    /\ nve_df.rows[1].time = now - hours_back
    /\ nve_df.rows[2].time = now + 10

\* C14 (as claimed): a record is dropped on quality grounds only when its
\* code is present and outside {1, 2}: every record inside the window that
\* has no code, or an accepted one, is returned, also when no record of the
\* response carries a quality field.
C14_MissingQualityRetained ==
    nve_df # NotCalled =>
        LET obs == ObservationsOf(response)
        IN  \A i \in 1..Len(obs) :
                ( /\ now - hours_back <= obs[i].time
                  /\ obs[i].time <= now
                  /\ ("quality" \notin DOMAIN obs[i] \/ obs[i].quality \in {1, 2}) )
                => obs[i].time \in TimesOf(nve_df.rows)

\* C14 (amended): a record is returned only when its quality code is present
\* and in {1, 2}: a record without a code is dropped, and a response none of
\* whose records carries a quality field yields the empty series.
C14_OnlyAcceptedQuality ==
    nve_df # NotCalled =>
        LET obs == ObservationsOf(response)
        IN  /\ \A j \in 1..Len(nve_df.rows) :
                   /\ "quality" \in DOMAIN nve_df.rows[j]
                   /\ nve_df.rows[j].quality \in {1, 2}
            /\ \A i \in 1..Len(obs) :
                   "quality" \notin DOMAIN obs[i] =>
                       obs[i].time \notin TimesOf(nve_df.rows)
            /\ (\A i \in 1..Len(obs) : "quality" \notin DOMAIN obs[i]) =>
                   nve_df = NveEmpty

\* two records inside the window, the first without a quality code, the
\* second with code 1: only the second is returned
C14_Witness ==
    /\ nve_df # NotCalled
    /\ Len(ObservationsOf(response)) = 2
    /\ ObservationsOf(response)[1] = [time |-> 60, value |-> 11]
    /\ ObservationsOf(response)[2] = [time |-> NveNow - hours_back, value |-> 12, quality |-> 1]
    /\ nve_df.rows = <<[time |-> NveNow - hours_back, value |-> 12, quality |-> 1]>>

\* C16: neither fetch raises: whatever the request comes back with, each
\* returns a data frame, fetch_nve_data one with the columns time, value,
\* quality; after a transport, HTTP-status or parsing failure or a response
\* without data the frame is empty.
C16_FetchesNeverRaise ==
    /\ nve_df # NotCalled =>
           /\ IsFrame(nve_df)
           /\ nve_df.columns = NveColumns
           /\ ObservationsOf(response) = <<>> => nve_df.rows = <<>>
    /\ pcRisk = "fetched" =>
           /\ IsFrame(weather_forecast)
           /\ ( \/ response.kind # "json"
                \/ "properties" \notin DOMAIN response.body
                \/ response.body.properties.timeseries = <<>> )
              => weather_forecast = EmptyFrame

\* the provider answers with a body that is not JSON: both fetches have
\* returned their empty frame
C16_Witness ==
    /\ response = [kind |-> "JSONDecodeError"]
    /\ nve_df = NveEmpty
    /\ pcRisk = "fetched"
    /\ weather_forecast = EmptyFrame

----------------------------------------------------------------------------
(* main: one dashboard run *)

\* the series fetched at the start of the run
Temperatures == {"vorma_temp", "funnefoss_temp", "blaker_temp", "fetsund_temp"}
Discharges   == {"funnefoss_discharge", "ertesekken_discharge", "blaker_discharge"}
Forecasts    == {"weather_forecast", "weather_bingsfossen", "weather_fetsund"}
Sources      == Temperatures \cup Discharges \cup Forecasts

\* the members of S whose series came back non-empty
Available(empty, S) == {s \in S : ~empty[s]}

\* faulty variant: any temperature station without data ends the run
data_unavailable_any(empty) == \E s \in Temperatures : empty[s]

\* if vorma_temp.empty: ... st.stop()
data_unavailable(empty) == empty["vorma_temp"]

InitMain ==
    /\ vorma_temp_df = <<>>
    /\ event_datetime = 0
    /\ now = 0
    /\ prediction = NotCalled
    /\ confidence = NotCalled
    /\ RiskIdle
    /\ MoreIdle

\* the ten fetches under the spinner: each series comes back empty or not
FetchData ==
    /\ run = NotCalled
    /\ \E empty \in [Sources -> BOOLEAN] :
          run' = [pc |-> "availability", empty |-> empty, shown |-> {}]
    /\ UNCHANGED <<predictVars, prediction, riskVars,
                   drop_event, response, nve_df, forecast_runs, purity, event_date>>

\* the step of the run at position pc: the next position and what it shows
Step(pc, next, shows) ==
    /\ run # NotCalled
    /\ run.pc = pc
    /\ run' = [run EXCEPT !.pc = next, !.shown = @ \cup shows]
    /\ UNCHANGED <<predictVars, prediction, riskVars,
                   drop_event, response, nve_df, forecast_runs, purity, event_date>>

\* without Vorma data: the offline notice, the Mjosa forecast, st.stop()
CheckAvailability ==
    /\ run # NotCalled
    /\ IF data_unavailable(run.empty)
       THEN Step("availability", "stopped", Available(run.empty, {"weather_forecast"}))
       ELSE Step("availability", "prediction", {})

\* current status, drop detection, current wind, prediction and risk
PredictionSection ==
    /\ run # NotCalled
    /\ Step("prediction", "temperature",
            {"vorma_temp"} \cup Available(run.empty, {"weather_forecast"}))

\* create_temperature_chart adds a trace for each non-empty station
TemperatureChart ==
    /\ run # NotCalled
    /\ Step("temperature", "discharge",
            Available(run.empty, {"funnefoss_temp", "blaker_temp", "fetsund_temp"}))

\* a metric for each non-empty discharge series, and the chart
DischargeSection ==
    /\ run # NotCalled
    /\ Step("discharge", "wind", Available(run.empty, Discharges))

\* wind chart and daily summary of the Mjosa forecast
WindAnalysis ==
    /\ run # NotCalled
    /\ Step("wind", "locations", Available(run.empty, {"weather_forecast"}))

\* forecast tables of Bingsfossen and Fetsund, then the sidebar
LocationForecasts ==
    /\ run # NotCalled
    /\ Step("locations", "end",
            Available(run.empty, {"weather_bingsfossen", "weather_fetsund"}))

NextMain ==
    \/ FetchData
    \/ CheckAvailability
    \/ PredictionSection
    \/ TemperatureChart
    \/ DischargeSection
    \/ WindAnalysis
    \/ LocationForecasts

SpecMain == InitMain /\ [][NextMain]_vars

----------------------------------------------------------------------------
(* Claims about main *)

EmptySources == {s \in Sources : run.empty[s]}

\* C15 (as claimed): whichever single fetch comes back empty, the Vorma
\* temperature included, the run is not stopped and at its end every other
\* series has been processed.
C15_NoSingleFetchAborts ==
    (run # NotCalled /\ Cardinality(EmptySources) = 1) =>
        /\ run.pc # "stopped"
        /\ run.pc = "end" => run.shown = Sources \ EmptySources

\* C15 (amended): when the Vorma temperature series is not empty the run is
\* never stopped, can always take its next step until the end, and at the
\* end has processed every series that is not empty, whichever others are;
\* when the Vorma series is empty the run stops at the availability check
\* having shown at most the Mjosa forecast.
C15_OnlyVormaStopsTheRun ==
    run # NotCalled =>
        /\ ~run.empty["vorma_temp"] =>
               /\ run.pc # "stopped"
               /\ run.pc # "end" => ENABLED NextMain
               /\ run.pc = "end" => run.shown = Sources \ EmptySources
        /\ run.empty["vorma_temp"] =>
               /\ run.pc \in {"availability", "stopped"}
               /\ run.pc = "stopped" =>
                      run.shown = {"weather_forecast"} \ EmptySources

\* only the Blaker temperature fetch came back empty: the run is at its end
\* with the nine other series processed
C15_Witness ==
    /\ run # NotCalled
    /\ EmptySources = {"blaker_temp"}
    /\ run.pc = "end"
    /\ run.shown = Sources \ {"blaker_temp"}

----------------------------------------------------------------------------
(* main: the daily wind summary (forecast_days) *)

\* .unique()[:7]
summary_days == 7

\* pd.to_datetime(time).dt.date, counted in days from hour 0
date_of(t) == t \div 24

\* Series.unique(): the distinct values in order of first appearance
unique(s) ==
    LET first == SelectSeq([i \in 1..Len(s) |-> i],
                           LAMBDA i : \A j \in 1..(i - 1) : s[j] # s[i])
    IN  [k \in 1..Len(first) |-> s[first[k]]]

\* faulty variant: the samples of the seven days ending at the date
day_data_trailing(rows, date) ==
    SelectSeq(rows, LAMBDA r : date_of(r.time) <= date /\ date_of(r.time) > date - 7)

\* weather_forecast_copy[weather_forecast_copy['date'] == date]
day_data(rows, date) == SelectSeq(rows, LAMBDA r : date_of(r.time) = date)

\* faulty variant: a mean of exactly 1.5 still counts as low
day_status_inclusive(avg_southerly_day) ==
    IF RatLE(avg_southerly_day, Rat(3, 2)) THEN "Lav"
    ELSE IF RatLT(avg_southerly_day, Rat(5, 2)) THEN "Moderat"
    ELSE "Hoy"

\* "Lav" if avg < 1.5 else "Moderat" if avg < 2.5 else "Hoy"
day_status(avg_southerly_day) ==
    IF RatLT(avg_southerly_day, Rat(3, 2)) THEN "Lav"
    ELSE IF RatLT(avg_southerly_day, Rat(5, 2)) THEN "Moderat"
    ELSE "Hoy"

\* one line of the summary; the source prints the two means with one decimal
day_entry(rows, date) ==
    LET data == day_data(rows, date)
        avg_wind_day      == MeanOf([i \in 1..Len(data) |-> data[i].wind_speed])
        avg_southerly_day == MeanOf([i \in 1..Len(data) |-> data[i].southerly_wind])
    IN  [date              |-> date,
         avg_wind_day      |-> avg_wind_day,
         avg_southerly_day |-> avg_southerly_day,
         status            |-> day_status(avg_southerly_day)]

\* the loop over weather_forecast_copy['date'].unique()[:7]
forecast_days(wf) ==
    LET dates == head(unique([i \in 1..Len(wf.rows) |-> date_of(wf.rows[i].time)]),
                      summary_days)
    IN  [k \in 1..Len(dates) |-> day_entry(wf.rows, dates[k])]

----------------------------------------------------------------------------
(* Daily-summary specification: fetch, decomposition, summary, and a rerun *)

MaxRuns == 2

DailyWinds == [speed : {0, 2, 3}, dir : {90, 180}]

\* hourly forecasts of 1 and 2 days, 6-hourly ones past the 7-day horizon,
\* and a forecast with a sample every other day
DailySeries(clock) ==
    { WindSeries(1, n, k, w1, w2, clock) :
          n \in {24, 48}, k \in {0, 12, 24}, w1 \in DailyWinds, w2 \in DailyWinds }
    \cup { WindSeries(6, 30, k, w1, w2, clock) :
          k \in {0, 12}, w1 \in DailyWinds, w2 \in DailyWinds }
    \cup { WindSeries(48, 2, k, w1, w2, clock) :
          k \in {0, 1}, w1 \in DailyWinds, w2 \in DailyWinds }

InitDaily ==
    /\ vorma_temp_df = <<>>
    /\ event_datetime = 0
    /\ now \in {0, 10}
    /\ confidence = NotCalled
    /\ prediction = NotCalled
    /\ MoreIdle
    /\ timeseries \in DailySeries(now)
    /\ weather_forecast = EmptyFrame
    /\ risk = NoRisk
    /\ pcRisk = "start"

\* the wind analysis of a run, entered when the forecast is not empty; the
\* loop works on weather_forecast.copy()
DailySummary ==
    /\ pcRisk = "derived"
    /\ weather_forecast.rows # <<>>
    /\ Len(forecast_runs) < MaxRuns
    /\ forecast_runs' = Append(forecast_runs, forecast_days(weather_forecast))
    /\ UNCHANGED <<predictVars, prediction, riskVars,
                   drop_event, response, nve_df, run, purity, event_date>>

NextDaily == FetchWeatherForecast \/ CalculateSoutherlyWind \/ DailySummary

SpecDaily == InitDaily /\ [][NextDaily]_vars

----------------------------------------------------------------------------
(* Claims about the daily summary *)

\* the forecast has one sample per hour
Hourly(rows) == \A i \in 1..(Len(rows) - 1) : rows[i + 1].time = rows[i].time + 1

SoutherlyOf(r) == IF r.wind_direction >= 135 /\ r.wind_direction <= 225
                  THEN r.wind_speed ELSE 0

RowsOfDates(rows, D) == SelectSeq(rows, LAMBDA r : date_of(r.time) \in D)

\* cumulative energy (m.h) and hours of southerly wind of hourly samples
EnergyOf(rows)         == SumSeq([i \in 1..Len(rows) |-> SoutherlyOf(rows[i])], Len(rows))
HoursSoutherlyOf(rows) == Len(SelectSeq(rows, LAMBDA r : SoutherlyOf(r) > 0))

EnergyLevel(energy, hours) ==
    IF energy > 150 \/ hours > 20 THEN "Hoy"
    ELSE IF energy > 100 \/ hours > 15 THEN "Moderat"
    ELSE "Lav"

MeanSoutherly(rows) == Rat(EnergyOf(rows), Len(rows))

MeanLevel(m) ==
    IF m.n * 2 < 3 * m.d THEN "Lav"
    ELSE IF m.n * 2 < 5 * m.d THEN "Moderat"
    ELSE "Hoy"

Rank(level) == CASE level = "Lav" -> 1 [] level = "Moderat" -> 2 [] level = "Hoy" -> 3

\* C17 (as claimed): the level of a day follows the cumulative energy and
\* the hours of southerly wind of its hourly samples: HIGH when energy > 150
\* or hours > 20, MODERATE when energy > 100 or hours > 15, else LOW.
C17_EnergyClassification ==
    \A r \in 1..Len(forecast_runs) :
        Hourly(weather_forecast.rows) =>
            \A k \in 1..Len(forecast_runs[r]) :
                LET e    == forecast_runs[r][k]
                    data == RowsOfDates(weather_forecast.rows, {e.date})
                IN  e.status = EnergyLevel(EnergyOf(data), HoursSoutherlyOf(data))

\* C17 (amended): the level of a day follows the mean southerly wind of its
\* samples: LOW below 1.5 m/s, MODERATE below 2.5 m/s, else HIGH, and never
\* falls when that mean rises.
C17_MeanClassification ==
    \A r \in 1..Len(forecast_runs) :
        /\ \A k \in 1..Len(forecast_runs[r]) :
               LET e    == forecast_runs[r][k]
                   data == RowsOfDates(weather_forecast.rows, {e.date})
               IN  /\ e.avg_southerly_day = MeanSoutherly(data)
                   /\ e.status = MeanLevel(MeanSoutherly(data))
        /\ \A k \in 1..Len(forecast_runs[r]) : \A l \in 1..Len(forecast_runs[r]) :
               RatLE(forecast_runs[r][k].avg_southerly_day,
                     forecast_runs[r][l].avg_southerly_day)
               => Rank(forecast_runs[r][k].status) <= Rank(forecast_runs[r][l].status)

\* 24 hourly samples at 180 degrees and 2 m/s: energy 48, 24 southerly
\* hours, mean 2.0, and the day is classified MODERATE
C17_Witness ==
    /\ Len(forecast_runs) >= 1
    /\ Len(weather_forecast.rows) = 24
    /\ Hourly(weather_forecast.rows)
    /\ \A i \in 1..24 : /\ weather_forecast.rows[i].wind_direction = 180
                        /\ weather_forecast.rows[i].wind_speed = 2
    /\ EnergyOf(weather_forecast.rows) = 48
    /\ HoursSoutherlyOf(weather_forecast.rows) = 24
    /\ Len(forecast_runs[1]) = 1
    /\ forecast_runs[1][1].status = "Moderat"

DatesOf(rows) == {date_of(rows[i].time) : i \in 1..Len(rows)}

\* C18 (as claimed): the entries are in ascending date order and each is
\* computed from the trailing 7-day window ending at its day.
C18_TrailingWindowPerDay ==
    \A r \in 1..Len(forecast_runs) :
        /\ \A k \in 1..(Len(forecast_runs[r]) - 1) :
               forecast_runs[r][k].date < forecast_runs[r][k + 1].date
        /\ \A k \in 1..Len(forecast_runs[r]) :
               LET e == forecast_runs[r][k]
               IN  e.avg_southerly_day =
                       MeanSoutherly(RowsOfDates(weather_forecast.rows,
                                                 (e.date - 6)..e.date))

\* C18 (amended): the summary holds one entry for each of the first seven
\* calendar dates that have a sample, in ascending date order, each computed
\* from the samples of that date alone; a date without a sample has no
\* entry; a second run on the same forecast gives the identical list.
C18_OneEntryPerSampledDate ==
    /\ \A r \in 1..Len(forecast_runs) :
        LET days == forecast_runs[r]
            D    == DatesOf(weather_forecast.rows)
        IN  /\ \A k \in 1..(Len(days) - 1) : days[k].date < days[k + 1].date
            /\ {days[k].date : k \in 1..Len(days)} =
                   {d \in D : Cardinality({x \in D : x < d}) < 7}
            /\ \A k \in 1..Len(days) :
                   days[k].avg_southerly_day =
                       MeanSoutherly(RowsOfDates(weather_forecast.rows, {days[k].date}))
    /\ Len(forecast_runs) = 2 => forecast_runs[1] = forecast_runs[2]

\* a forecast with a sample every other day summarised twice: two entries,
\* for day 0 and day 2, none for day 1, the same in both runs
C18_Witness ==
    /\ Len(forecast_runs) = 2
    /\ DatesOf(weather_forecast.rows) = {0, 2}
    /\ Len(forecast_runs[1]) = 2
    /\ forecast_runs[1][1].date = 0
    /\ forecast_runs[1][2].date = 2
    /\ forecast_runs[2] = forecast_runs[1]

----------------------------------------------------------------------------
(* What a call leaves in the frame the caller passed in *)

\* calculate_southerly_wind assigns df['southerly_wind'] on the frame it was
\* given and returns that frame: the caller's frame is the result
southerly_wind_input_after(df) == calculate_southerly_wind(df)

\* detect_temperature_drop rebinds df to df.sort_values('time').copy()
temperature_drop_input_after(df) == df

\* faulty variant: without the copy the time_diff column lands in the input
prediction_input_without_copy(df, event) ==
    [i \in 1..Len(df) |->
        [time_diff |-> time_diff(df, prediction_time(event))[i]] @@ df[i]]

\* predict_fetsund_temperature rebinds vorma_temp_df to vorma_temp_df.copy()
\* before it assigns the time and time_diff columns
prediction_input_after(df, event) == df

----------------------------------------------------------------------------
(* Purity specification: one call of an analysis function on a frame *)

Reverse(s) == [i \in 1..Len(s) |-> s[Len(s) + 1 - i]]

PureForecasts ==
    {EmptyFrame}
    \cup { fetch_weather_forecast(ts, 0) : ts \in FewWind \cup ManyWind({1, 2}) }

InitPure ==
    /\ vorma_temp_df = <<>>
    /\ event_datetime = 0
    /\ now = 0
    /\ prediction = NotCalled
    /\ confidence = NotCalled
    /\ RiskIdle
    /\ MoreIdle

PureUnchanged ==
    UNCHANGED <<predictVars, prediction, riskVars,
                drop_event, response, nve_df, run, forecast_runs, event_date>>

CallCalculateSoutherlyWind ==
    /\ purity = NotCalled
    /\ \E df \in PureForecasts :
          purity' = [fn     |-> "calculate_southerly_wind",
                     before |-> df,
                     after  |-> southerly_wind_input_after(df),
                     result |-> calculate_southerly_wind(df),
                     again  |-> NotCalled]
    /\ PureUnchanged

\* calculate_southerly_wind applied to its own result
CallCalculateSoutherlyWindAgain ==
    /\ purity # NotCalled
    /\ purity.fn = "calculate_southerly_wind"
    /\ purity.again = NotCalled
    /\ purity' = [purity EXCEPT !.again = calculate_southerly_wind(purity.result)]
    /\ PureUnchanged

CallDetectTemperatureDrop ==
    /\ purity = NotCalled
    /\ \E s \in ShortSeries : \E df \in {s, Reverse(s)} :
          purity' = [fn     |-> "detect_temperature_drop",
                     before |-> df,
                     after  |-> temperature_drop_input_after(df),
                     result |-> detect_temperature_drop(df, threshold_C, window_hours),
                     again  |-> NotCalled]
    /\ PureUnchanged

CallPredictFetsundTemperature ==
    /\ purity = NotCalled
    /\ \E df \in ShortSeries : \E event \in EventTimes :
          purity' = [fn     |-> "predict_fetsund_temperature",
                     before |-> df,
                     after  |-> prediction_input_after(df, event),
                     result |-> predict_fetsund_temperature(df, event),
                     again  |-> NotCalled]
    /\ PureUnchanged

NextPure ==
    \/ CallCalculateSoutherlyWind
    \/ CallCalculateSoutherlyWindAgain
    \/ CallDetectTemperatureDrop
    \/ CallPredictFetsundTemperature

SpecPure == InitPure /\ [][NextPure]_vars

----------------------------------------------------------------------------
(* Claims about purity *)

SoutherlyValues(df) == [i \in 1..Len(df.rows) |-> df.rows[i].southerly_wind]

\* C19 (as claimed): each of the three functions leaves the frame passed to
\* it unchanged, and calculate_southerly_wind applied to its own result
\* gives the same southerly values.
C19_InputsUnchanged ==
    purity # NotCalled =>
        /\ purity.after = purity.before
        /\ purity.again # NotCalled =>
               SoutherlyValues(purity.again) = SoutherlyValues(purity.result)

\* C19 (amended): detect_temperature_drop and predict_fetsund_temperature
\* leave the frame passed to them unchanged; calculate_southerly_wind
\* returns the frame it was given, to which, when it has rows and a
\* wind_direction column, it has added the southerly_wind column, every
\* other column and the row order kept; applied to its own result it gives
\* the same frame.
C19_OnlySoutherlyWindWritesItsInput ==
    purity # NotCalled =>
        /\ purity.fn # "calculate_southerly_wind" => purity.after = purity.before
        /\ purity.fn = "calculate_southerly_wind" =>
               /\ purity.after = purity.result
               /\ purity.before.rows = <<>> => purity.after = purity.before
               /\ purity.before.rows # <<>> =>
                      /\ purity.after.columns =
                             purity.before.columns \cup {"southerly_wind"}
                      /\ purity.after # purity.before
                      /\ Len(purity.after.rows) = Len(purity.before.rows)
                      /\ \A i \in 1..Len(purity.before.rows) :
                             \A c \in DOMAIN purity.before.rows[i] :
                                 purity.after.rows[i][c] = purity.before.rows[i][c]
               /\ purity.again # NotCalled => purity.again = purity.result

\* a two-row forecast without the southerly_wind column went through
\* calculate_southerly_wind twice: the caller's frame now has the column
C19_Witness ==
    /\ purity # NotCalled
    /\ purity.fn = "calculate_southerly_wind"
    /\ Len(purity.before.rows) = 2
    /\ "southerly_wind" \notin purity.before.columns
    /\ "southerly_wind" \in purity.after.columns
    /\ purity.again = purity.result

----------------------------------------------------------------------------
(* calculate_event_date *)

EVENT_MONTH       == 8
EVENT_DAY_OF_WEEK == 5
EVENT_YEAR        == 2026
event_hour        == 10

\* days from 1970-01-01 to the Gregorian date y-m-d (datetime(y, m, d))
days_from_civil(y, m, d) ==
    LET yy  == IF m <= 2 THEN y - 1 ELSE y
        era == yy \div 400
        yoe == yy - era * 400
        mp  == IF m > 2 THEN m - 3 ELSE m + 9
        doy == (153 * mp + 2) \div 5 + d - 1
        doe == yoe * 365 + yoe \div 4 - yoe \div 100 + doy
    IN  era * 146097 + doe - 719468

\* datetime.weekday(): Monday is 0; 1970-01-01 was a Thursday
weekday(days) == (days + 3) % 7

\* the UTC offset, in hours, of Europe/Oslo in August (summer time)
oslo_offset_august == 2

\* faulty variant: the days since the last Saturday
days_since_saturday(first_weekday) == (first_weekday - EVENT_DAY_OF_WEEK) % 7

\* (EVENT_DAY_OF_WEEK - first_day.weekday()) % 7, and the branch after it
days_until_saturday(first_weekday) ==
    LET n == (EVENT_DAY_OF_WEEK - first_weekday) % 7
    IN  IF n = 0 /\ first_weekday # EVENT_DAY_OF_WEEK THEN 7 ELSE n

\* the result as hours UTC from 1970-01-01 00:00
calculate_event_date(year) ==
    LET first_day  == days_from_civil(year, EVENT_MONTH, 1)
        event_day  == first_day + days_until_saturday(weekday(first_day))
        local_time == event_day * 24 + event_hour
    IN  local_time - oslo_offset_august

----------------------------------------------------------------------------
(* Event-date specification *)

YearSpan == 120
Years    == 1980..(1980 + YearSpan)

InitEvent ==
    /\ vorma_temp_df = <<>>
    /\ event_datetime = 0
    /\ now = 0
    /\ prediction = NotCalled
    /\ confidence = NotCalled
    /\ RiskIdle
    /\ MoreIdle

CalculateEventDate ==
    /\ event_date = NotCalled
    /\ \E year \in Years :
          event_date' = [year |-> year, result |-> calculate_event_date(year)]
    /\ UNCHANGED <<predictVars, prediction, riskVars,
                   drop_event, response, nve_df, run, forecast_runs, purity>>

NextEvent == CalculateEventDate

SpecEvent == InitEvent /\ [][NextEvent]_vars

----------------------------------------------------------------------------
(* Claims about the event date *)

\* the Gregorian date [y, m, d] of a day counted from 1970-01-01
CivilFromDays(days) ==
    LET z   == days + 719468
        era == z \div 146097
        doe == z - era * 146097
        yoe == (doe - doe \div 1460 + doe \div 36524 - doe \div 146096) \div 365
        doy == doe - (365 * yoe + yoe \div 4 - yoe \div 100)
        mp  == (5 * doy + 2) \div 153
        d   == doy - (153 * mp + 2) \div 5 + 1
        m   == IF mp < 10 THEN mp + 3 ELSE mp - 9
    IN  [y |-> (yoe + era * 400) + (IF m <= 2 THEN 1 ELSE 0), m |-> m, d |-> d]

\* the weekday (Monday 0) the calendar gives 1 August of a year: the leap
\* days since 1 August 1980, a Friday, shift it
FirstOfAugustWeekday(year) ==
    LET leaps == Cardinality({y \in 1981..year :
                     y % 4 = 0 /\ (y % 100 # 0 \/ y % 400 = 0)})
    IN  (4 + (year - 1980) + leaps) % 7

\* C20: for every year the result is 10:00 Europe/Oslo local time of a
\* Saturday of August of that year with day-of-month 1..7, that is the first
\* Saturday; it is 1 August exactly when 1 August is a Saturday, as in 2026.
C20_FirstSaturdayOfAugust ==
    event_date # NotCalled =>
        LET local == event_date.result + 2
            date  == CivilFromDays(local \div 24)
        IN  /\ local % 24 = 10
            /\ date.y = event_date.year
            /\ date.m = 8
            /\ date.d \in 1..7
            /\ date.d = 1 + ((5 - FirstOfAugustWeekday(event_date.year)) % 7)
            /\ date.d = 1 <=> FirstOfAugustWeekday(event_date.year) = 5
            /\ event_date.year = 2026 => date.d = 1

\* 2026: 1 August is a Saturday and the event starts at 08:00 UTC that day,
\* 20666 days after 1970-01-01
C20_Witness ==
    /\ event_date # NotCalled
    /\ event_date.year = EVENT_YEAR
    /\ event_date.result = 20666 * 24 + 8

====
